---- MODULE Spec2Model ----
(***************************************************************************)
(* KPI derivation of the water and sanitation dashboard: the load_data     *)
(* functions of app.py and of the four country pages.                      *)
(*                                                                         *)
(* The derived columns are pandas float64 arithmetic.  A double is         *)
(* modelled bit for bit (a 53-bit significand and an exponent), so that    *)
(* the division, the multiplication by the scale and the three steps of    *)
(* numpy's round each round to nearest-even as IEEE 754 does.              *)
(***************************************************************************)
EXTENDS Integers, Sequences, FiniteSets, TLC

(***************************************************************************)
(* IEEE 754 binary64                                                       *)
(*                                                                         *)
(* A finite non-zero double is s * m * 2^e with 2^52 <= m < 2^53.  m is    *)
(* held as its six digits in base 2^9, most significant first, so that     *)
(* every step stays inside the model checker's 32-bit integers.  Raw cells *)
(* and scale constants are below 2^21 in absolute value; subnormals and    *)
(* overflow lie far outside the magnitudes of this dataset.                *)
(***************************************************************************)

\* Significand width of a float64.
Prec == 53
\* Width of one digit of the significand as the model holds it.
LimbBits == 9
Base == 2 ^ LimbBits

NaN == [k |-> "nan", s |-> 1, m |-> <<>>, e |-> 0]
Inf(s) == [k |-> "inf", s |-> s, m |-> <<>>, e |-> 0]
FZero == [k |-> "zero", s |-> 1, m |-> <<>>, e |-> 0]
Fin(s, m, e) == [k |-> "fin", s |-> s, m |-> m, e |-> e]

Abs(n) == IF n < 0 THEN -n ELSE n
Sign(n) == IF n < 0 THEN -1 ELSE 1

RECURSIVE Pow10(_)
Pow10(d) == IF d = 0 THEN 1 ELSE 10 * Pow10(d - 1)

\* The digits of n >= 0 in base 2^9, most significant first, no leading zero.
RECURSIVE ToLimbs(_)
ToLimbs(n) == IF n = 0 THEN <<>> ELSE Append(ToLimbs(n \div Base), n % Base)

RECURSIVE FromLimbs(_)
FromLimbs(m) ==
    IF m = <<>> THEN 0
    ELSE Base * FromLimbs(SubSeq(m, 1, Len(m) - 1)) + m[Len(m)]

\* Number of binary digits of one digit d < 2^9, and of a digit sequence.
RECURSIVE BitLen1(_)
BitLen1(d) == IF d = 0 THEN 0 ELSE 1 + BitLen1(d \div 2)
BitLen(m) == IF m = <<>> THEN 0 ELSE LimbBits * (Len(m) - 1) + BitLen1(m[1])

RECURSIVE StripZeros(_)
StripZeros(m) == IF m # <<>> /\ m[1] = 0 THEN StripZeros(Tail(m)) ELSE m

\* m + 1; a carry out of the top digit lengthens the sequence by one.
RECURSIVE IncLimbs(_)
IncLimbs(m) ==
    IF m = <<>> THEN <<1>>
    ELSE IF m[Len(m)] < Base - 1 THEN [m EXCEPT ![Len(m)] = @ + 1]
    ELSE Append(IncLimbs(SubSeq(m, 1, Len(m) - 1)), 0)

AnyNonZero(m) == \E i \in 1..Len(m) : m[i] # 0

\* floor(m / 2^f) for a digit sequence m, with the first discarded bit (rb)
\* and whether any later discarded bit is set (st).
SplitAt(m, f) ==
    LET n == Len(m)
        u == f \div LimbBits
        v == f % LimbBits
        kept == SubSeq(m, 1, n - u)
        low == SubSeq(m, n - u + 1, n)
        nk == Len(kept)
        cut == IF nk = 0 THEN 0 ELSE kept[nk] % (2 ^ v)
        q == [i \in 1..nk |->
                (IF i = 1 THEN 0 ELSE (kept[i - 1] % (2 ^ v)) * (2 ^ (LimbBits - v)))
                + kept[i] \div (2 ^ v)]
    IN  [q |-> StripZeros(q),
         rb |-> IF f = 0 THEN 0
                ELSE IF v > 0 THEN cut \div (2 ^ (v - 1))
                ELSE low[1] \div (Base \div 2),
         st |-> IF f = 0 THEN FALSE
                ELSE IF v > 0 THEN cut % (2 ^ (v - 1)) # 0 \/ AnyNonZero(low)
                ELSE low[1] % (Base \div 2) # 0 \/ AnyNonZero(Tail(low))]

Odd(m) == m # <<>> /\ m[Len(m)] % 2 = 1

\* Round-to-nearest, ties-to-even: m has Prec bits and stands for the exact
\* value m * 2^e plus a discarded tail; up tells whether that tail is above
\* one half, or exactly one half with m odd.
RoundNearestEven(s, m, e, up) ==
    IF ~up THEN Fin(s, m, e)
    ELSE LET m1 == IncLimbs(m)
         IN  IF BitLen(m1) > Prec THEN Fin(s, SplitAt(m1, 1).q, e + 1)
             ELSE Fin(s, m1, e)

\* Long division in base 2^9: n more digits of the quotient, q the digits so
\* far and r the remainder.
RECURSIVE DivLimbs(_, _, _, _)
DivLimbs(q, r, n, b) ==
    IF n = 0 THEN [q |-> StripZeros(q), r |-> r]
    ELSE DivLimbs(Append(q, (r * Base) \div b), (r * Base) % b, n - 1, b)

\* The double nearest to a / b, for integers a, b > 0: the 53-bit quotient
\* floor(a * 2^k / b) and its remainder, rounded to nearest-even.
DivPos(a, b) ==
    LET la == BitLen(ToLimbs(a))
        lb == BitLen(ToLimbs(b))
        t == la - lb
        ge == IF t >= 0 THEN a >= b * (2 ^ t) ELSE a * (2 ^ (-t)) >= b
        k == Prec - (IF ge THEN t + 1 ELSE t)
        a0 == a * (2 ^ (k % LimbBits))
        d == DivLimbs(ToLimbs(a0 \div b), a0 % b, k \div LimbBits, b)
    IN  RoundNearestEven(1, d.q, -k,
                         2 * d.r > b \/ (2 * d.r = b /\ Odd(d.q)))

WithSign(x, s) == [x EXCEPT !.s = s]

\* A division that answers 0 for a zero divisor instead of inf / NaN.
IntDivGuarded(a, b) ==
    IF b = 0 \/ a = 0 THEN FZero
    ELSE WithSign(DivPos(Abs(a), Abs(b)), Sign(a) * Sign(b))

\* numpy true_divide of two int64 cells: both are converted to float64
\* (exactly, at these magnitudes) and divided; x / 0 is +-inf, 0 / 0 is NaN.
IntDiv(a, b) ==
    IF b = 0 THEN (IF a = 0 THEN NaN ELSE Inf(Sign(a)))
    ELSE IF a = 0 THEN FZero
    ELSE WithSign(DivPos(Abs(a), Abs(b)), Sign(a) * Sign(b))

\* The exact product m * c as a digit sequence (c a small positive integer).
RECURSIVE MulLimbs(_, _, _)
MulLimbs(m, c, carry) ==
    IF m = <<>> THEN ToLimbs(carry)
    ELSE LET t == m[Len(m)] * c + carry
         IN  Append(MulLimbs(SubSeq(m, 1, Len(m) - 1), c, t \div Base), t % Base)

\* float64 * c for an integer constant c > 0: the exact product, rounded once.
FloatMul(x, c) ==
    IF x.k # "fin" THEN x
    ELSE LET p == MulLimbs(x.m, c, 0)
             t == BitLen(p) - Prec
             sp == SplitAt(p, t)
         IN  RoundNearestEven(x.s, sp.q, x.e + t,
                              sp.rb = 1 /\ (sp.st \/ Odd(sp.q)))

\* numpy rint of a finite double, as an integer: nearest, ties to even.
Rint(x) ==
    IF x.k = "zero" \/ -x.e > Prec THEN 0
    ELSE LET sp == SplitAt(x.m, -x.e)
             ip == FromLimbs(sp.q)
         IN  x.s * (IF sp.rb = 1 /\ (sp.st \/ ip % 2 = 1) THEN ip + 1 ELSE ip)

\* m * 2^n for a digit sequence m.
ShiftLeft(m, n) ==
    MulLimbs(m, 2 ^ (n % LimbBits), 0) \o [i \in 1..(n \div LimbBits) |-> 0]

\* m with leading zero digits up to n digits.
PadTo(m, n) == [i \in 1..(n - Len(m)) |-> 0] \o m

\* Order of two digit sequences of the same length.
RECURSIVE LimbLess(_, _)
LimbLess(a, b) ==
    IF a = <<>> THEN FALSE
    ELSE IF a[1] # b[1] THEN a[1] < b[1]
    ELSE LimbLess(Tail(a), Tail(b))

\* a + b + carry and a - b - borrow (a >= b) for digit sequences of the same
\* length; the sum may be one digit longer.
RECURSIVE AddLimbs(_, _, _)
AddLimbs(a, b, carry) ==
    IF a = <<>> THEN ToLimbs(carry)
    ELSE LET n == Len(a)
             t == a[n] + b[n] + carry
         IN  Append(AddLimbs(SubSeq(a, 1, n - 1), SubSeq(b, 1, n - 1), t \div Base),
                    t % Base)

RECURSIVE SubLimbs(_, _, _)
SubLimbs(a, b, borrow) ==
    IF a = <<>> THEN <<>>
    ELSE LET n == Len(a)
             t == a[n] - b[n] - borrow
         IN  Append(SubLimbs(SubSeq(a, 1, n - 1), SubSeq(b, 1, n - 1),
                             IF t < 0 THEN 1 ELSE 0),
                    IF t < 0 THEN t + Base ELSE t)

\* The double nearest to s * m * 2^e for a digit sequence m of any length.
Normalize(s, m, e) ==
    LET p == StripZeros(m)
        t == BitLen(p) - Prec
    IN  IF p = <<>> THEN FZero
        ELSE IF t <= 0 THEN Fin(s, ShiftLeft(p, -t), e + t)
        ELSE LET sp == SplitAt(p, t)
             IN  RoundNearestEven(s, sp.q, e + t, sp.rb = 1 /\ (sp.st \/ Odd(sp.q)))

\* float64 + float64: the exact sum, rounded once.  inf + (-inf) is NaN.
FloatAdd(x, y) ==
    IF x.k = "nan" \/ y.k = "nan" THEN NaN
    ELSE IF x.k = "inf" THEN (IF y.k = "inf" /\ y.s # x.s THEN NaN ELSE x)
    ELSE IF y.k = "inf" THEN y
    ELSE IF x.k = "zero" THEN y
    ELSE IF y.k = "zero" THEN x
    ELSE LET hi == IF x.e >= y.e THEN x ELSE y
             lo == IF x.e >= y.e THEN y ELSE x
             d == hi.e - lo.e
         IN  IF d > Prec + 2 THEN hi
             ELSE LET a0 == ShiftLeft(hi.m, d)
                      n == IF Len(a0) > Len(lo.m) THEN Len(a0) ELSE Len(lo.m)
                      a == PadTo(a0, n)
                      b == PadTo(lo.m, n)
                  IN  IF hi.s = lo.s THEN Normalize(hi.s, AddLimbs(a, b, 0), lo.e)
                      ELSE IF LimbLess(a, b) THEN Normalize(lo.s, SubLimbs(b, a, 0), lo.e)
                      ELSE Normalize(hi.s, SubLimbs(a, b, 0), lo.e)

\* Long division of a digit sequence by a small integer c: the quotient
\* digits and the remainder.
RECURSIVE DivSeq(_, _, _)
DivSeq(m, c, r) ==
    IF m = <<>> THEN [q |-> <<>>, r |-> r]
    ELSE LET cur == r * Base + m[1]
             rest == DivSeq(Tail(m), c, cur % c)
         IN  [q |-> <<cur \div c>> \o rest.q, r |-> rest.r]

\* float64 / n for an integer n > 0 (the count of a mean): the exact
\* quotient, rounded once.
FloatDivInt(x, n) ==
    IF x.k # "fin" THEN x
    ELSE LET k == BitLen(ToLimbs(n))
             d == DivSeq(ShiftLeft(x.m, k), n, 0)
             q == StripZeros(d.q)
             t == BitLen(q) - Prec
             sp == SplitAt(q, t)
         IN  IF t = 0
             THEN RoundNearestEven(x.s, q, x.e - k,
                                   2 * d.r > n \/ (2 * d.r = n /\ Odd(q)))
             ELSE RoundNearestEven(x.s, sp.q, x.e - k + t,
                                   sp.rb = 1 /\ (sp.st \/ d.r # 0 \/ Odd(sp.q)))

\* The double of an integer below 2^31 (exact).
FromInt(n) == IntDiv(n, 1)

\* x < y and x <= y on doubles; every comparison with NaN is false.
Rank(x) == IF x.k = "zero" THEN 0 ELSE IF x.k = "inf" THEN 2 * x.s ELSE x.s
MagLess(x, y) == x.e < y.e \/ (x.e = y.e /\ LimbLess(x.m, y.m))
FloatLess(x, y) ==
    /\ x.k # "nan" /\ y.k # "nan"
    /\ \/ Rank(x) < Rank(y)
       \/ /\ Rank(x) = Rank(y)
          /\ x.k = "fin"
          /\ IF x.s = 1 THEN MagLess(x, y) ELSE MagLess(y, x)
FloatEq(x, y) ==
    /\ x.k # "nan" /\ y.k # "nan"
    /\ Rank(x) = Rank(y)
    /\ x.k = "fin" => (x.e = y.e /\ x.m = y.m)
FloatLe(x, y) == FloatLess(x, y) \/ FloatEq(x, y)

(***************************************************************************)
(* Cells of a DataFrame                                                    *)
(***************************************************************************)

\* One cell of the table.  k is "int" (an int64, v), "nan" (the float NaN:
\* an empty CSV cell, or the result of 0/0), "inf" (v = 1 or -1), "num" (the
\* float64 nearest to v / 10^d: what numpy's round leaves), "str" (text, t),
\* "date" (a month Timestamp, v = 12 * year + month - 1) or "raise" (the
\* operation raised).  -0.0 and 0.0, which compare equal, are one value.
Cell(k, v, d, t) == [k |-> k, v |-> v, d |-> d, t |-> t]
IntCell(n) == Cell("int", n, 0, "")
Missing == Cell("nan", 0, 0, "")
Text(t) == Cell("str", 0, 0, t)
Dec(n, d) == Cell("num", n, d, "")
CInf(s) == Cell("inf", s, 0, "")
Raised == Cell("raise", 0, 0, "")
FRaise == [k |-> "raise", s |-> 1, m |-> <<>>, e |-> 0]

\* A division that reads an empty cell as 0 (fillna(0) before dividing).
CellDivZeroFill(x, y) ==
    IF x.k = "raise" \/ y.k = "raise" \/ x.k = "str" \/ y.k = "str" THEN FRaise
    ELSE IntDiv(IF x.k = "nan" THEN 0 ELSE x.v, IF y.k = "nan" THEN 0 ELSE y.v)

\* Series / Series, one element: int64 / int64 is true division in float64;
\* NaN on either side gives NaN; a str operand raises TypeError.
CellDiv(x, y) ==
    IF x.k = "raise" \/ y.k = "raise" \/ x.k = "str" \/ y.k = "str" THEN FRaise
    ELSE IF x.k = "nan" \/ y.k = "nan" THEN NaN
    ELSE IntDiv(x.v, y.v)

\* A subtraction clipped at 0 (clip(lower=0) on the difference).
CellSubClamped(x, y) ==
    IF x.k = "str" \/ y.k = "str" THEN Raised
    ELSE IF x.k = "nan" \/ y.k = "nan" THEN Missing
    ELSE IntCell(IF x.v - y.v < 0 THEN 0 ELSE x.v - y.v)

\* Series - Series, one element.
CellSub(x, y) ==
    IF x.k = "str" \/ y.k = "str" THEN Raised
    ELSE IF x.k = "nan" \/ y.k = "nan" THEN Missing
    ELSE IntCell(x.v - y.v)

\* Series * c for an int c, one element (a str times an int is the str
\* repeated: no exception).
CellTimes(x, c) ==
    IF x.k = "str" THEN x
    ELSE IF x.k = "nan" THEN Missing
    ELSE IntCell(x.v * c)

\* (float Series) * c, one element.
DblMul(x, c) == IF x.k = "raise" THEN x ELSE FloatMul(x, c)

\* numpy round, one element: decimals = 0 is rint; otherwise the value is
\* multiplied by 10^decimals, rint is taken, and the result is divided by
\* 10^decimals (correctly rounded: the float64 nearest to n / 10^decimals).
NpRound(x, decimals) ==
    CASE x.k = "raise" -> Raised
      [] x.k = "nan" -> Missing
      [] x.k = "inf" -> CInf(x.s)
      [] OTHER -> IF decimals = 0 THEN Dec(Rint(x), 0)
                  ELSE Dec(Rint(FloatMul(x, Pow10(decimals))), decimals)

(***************************************************************************)
(* Series and column assignment                                            *)
(***************************************************************************)

Column(df, name) == [i \in 1..Len(df) |-> df[i][name]]
SeriesSub(x, y) == [i \in 1..Len(x) |-> CellSub(x[i], y[i])]
SeriesDiv(x, y) == [i \in 1..Len(x) |-> CellDiv(x[i], y[i])]
SeriesMul(x, c) == [i \in 1..Len(x) |-> DblMul(x[i], c)]
SeriesTimes(x, c) == [i \in 1..Len(x) |-> CellTimes(x[i], c)]
SeriesRound(x, decimals) == [i \in 1..Len(x) |-> NpRound(x[i], decimals)]

\* An assignment that aligns the series from the last row backwards.
AssignReversed(df, name, series) ==
    [i \in 1..Len(df) |->
        [f \in DOMAIN df[i] \cup {name} |->
            IF f = name THEN series[Len(df) + 1 - i] ELSE df[i][f]]]

\* df[name] = series
Assign(df, name, series) ==
    [i \in 1..Len(df) |->
        [f \in DOMAIN df[i] \cup {name} |->
            IF f = name THEN series[i] ELSE df[i][f]]]

(***************************************************************************)
(* The derived columns of each load_data, in source order                  *)
(***************************************************************************)

\* (df[a] / df[den] * scale).round(digits); scale 1 stands for a line with
\* no multiplication (a float64 times 1 is itself).
Ratio(col, a, den, scale, digits) ==
    [col |-> col, op |-> "ratio", a |-> a, b |-> "", den |-> den,
     scale |-> scale, digits |-> digits]
\* ((df[a] - df[b]) / df[den] * scale).round(digits)
DiffRatio(col, a, b, den, scale, digits) ==
    [col |-> col, op |-> "diffratio", a |-> a, b |-> b, den |-> den,
     scale |-> scale, digits |-> digits]
\* df[a] * scale
Times(col, a, scale) ==
    [col |-> col, op |-> "times", a |-> a, b |-> "", den |-> "",
     scale |-> scale, digits |-> 0]

chlorine_execution_rate ==
    Ratio("chlorine_execution_rate", "tests_conducted_chlorine", "tests_chlorine", 100, 2)
chlorine_pass_rate ==
    Ratio("chlorine_pass_rate", "test_passed_chlorine", "tests_conducted_chlorine", 100, 2)
ecoli_execution_rate ==
    Ratio("ecoli_execution_rate", "test_conducted_ecoli", "tests_ecoli", 100, 2)
ecoli_pass_rate ==
    Ratio("ecoli_pass_rate", "tests_passed_ecoli", "test_conducted_ecoli", 100, 2)
complaint_resolution_efficiency ==
    Ratio("complaint_resolution_efficiency", "resolved", "complaints", 100, 2)
complaints_per_1000_hh ==
    Ratio("complaints_per_1000_hh", "complaints", "households", 1000, 2)
female_workforce_ratio ==
    Ratio("female_workforce_ratio", "f_workforce", "workforce", 100, 2)
connections_per_employee ==
    Ratio("connections_per_employee", "metered", "workforce", 1, 2)
ww_capacity_utilization ==
    Ratio("ww_capacity_utilization", "ww_treated", "ww_capacity", 100, 2)
ww_collection_efficiency ==
    Ratio("ww_collection_efficiency", "ww_collected", "total_consumption", 100, 2)
ww_treatment_coverage ==
    Ratio("ww_treatment_coverage", "ww_treated", "ww_collected", 100, 2)
\* sewer density published with 2 decimals like the percentages
sewer_connection_density_2dp ==
    Ratio("sewer_connection_density", "sewer_connections", "households", 1, 2)
sewer_connection_density ==
    Ratio("sewer_connection_density", "sewer_connections", "households", 1, 3)
fs_service_coverage ==
    Ratio("fs_service_coverage", "hh_emptied", "households", 100, 2)
fs_reuse_rate ==
    Ratio("fs_reuse_rate", "fs_reused", "fs_treated", 100, 2)
water_per_connection ==
    Ratio("water_per_connection", "w_supplied", "metered", 1, 2)
nrw_percentage ==
    DiffRatio("nrw_percentage", "w_supplied", "total_consumption", "w_supplied", 100, 2)
\* metering coverage with numerator and denominator exchanged
metering_coverage_swapped ==
    Ratio("metering_coverage", "households", "metered", 100, 2)
metering_coverage ==
    Ratio("metering_coverage", "metered", "households", 100, 2)
population_estimate ==
    Times("population_estimate", "households", 5)
\* people per toilet taken from households rather than the population estimate
people_per_toilet_households ==
    Ratio("people_per_toilet", "households", "public_toilets", 1, 0)
people_per_toilet ==
    Ratio("people_per_toilet", "population_estimate", "public_toilets", 1, 0)

Fns == {"app", "cameroon", "lesotho", "malawi", "uganda"}

AppColumns ==
    << chlorine_execution_rate, chlorine_pass_rate, ecoli_execution_rate,
       ecoli_pass_rate, complaint_resolution_efficiency, complaints_per_1000_hh,
       female_workforce_ratio, connections_per_employee, ww_capacity_utilization,
       ww_collection_efficiency, ww_treatment_coverage, sewer_connection_density,
       fs_service_coverage, fs_reuse_rate, water_per_connection, nrw_percentage,
       metering_coverage, population_estimate, people_per_toilet >>

CameroonColumns ==
    << chlorine_execution_rate, chlorine_pass_rate, ecoli_execution_rate,
       ecoli_pass_rate, complaint_resolution_efficiency, complaints_per_1000_hh,
       female_workforce_ratio, connections_per_employee, ww_capacity_utilization,
       ww_collection_efficiency, ww_treatment_coverage, fs_reuse_rate,
       metering_coverage, nrw_percentage >>

LesothoColumns ==
    << chlorine_execution_rate, chlorine_pass_rate, ecoli_execution_rate,
       ecoli_pass_rate, complaint_resolution_efficiency, complaints_per_1000_hh,
       female_workforce_ratio, connections_per_employee, sewer_connection_density,
       metering_coverage, nrw_percentage >>

\* A Malawi block whose people-per-toilet line drifted from app.py's.
MalawiColumnsDrifted ==
    << chlorine_execution_rate, chlorine_pass_rate, ecoli_execution_rate,
       ecoli_pass_rate, complaint_resolution_efficiency, complaints_per_1000_hh,
       female_workforce_ratio, connections_per_employee, population_estimate,
       people_per_toilet_households, metering_coverage, nrw_percentage >>

MalawiColumns ==
    << chlorine_execution_rate, chlorine_pass_rate, ecoli_execution_rate,
       ecoli_pass_rate, complaint_resolution_efficiency, complaints_per_1000_hh,
       female_workforce_ratio, connections_per_employee, population_estimate,
       people_per_toilet, metering_coverage, nrw_percentage >>

\* A Uganda block copied without the NRW line its page charts.
UgandaColumnsWithoutNrw ==
    << chlorine_execution_rate, chlorine_pass_rate, ecoli_execution_rate,
       ecoli_pass_rate, complaint_resolution_efficiency, complaints_per_1000_hh,
       female_workforce_ratio, connections_per_employee, metering_coverage >>

UgandaColumns ==
    << chlorine_execution_rate, chlorine_pass_rate, ecoli_execution_rate,
       ecoli_pass_rate, complaint_resolution_efficiency, complaints_per_1000_hh,
       female_workforce_ratio, connections_per_employee, metering_coverage,
       nrw_percentage >>

Columns(fn) ==
    CASE fn = "app" -> AppColumns
      [] fn = "cameroon" -> CameroonColumns
      [] fn = "lesotho" -> LesothoColumns
      [] fn = "malawi" -> MalawiColumns
      [] fn = "uganda" -> UgandaColumns

(***************************************************************************)
(* load_data                                                               *)
(***************************************************************************)

\* One derived column, computed over the whole table as pandas does.
Compute(df, c) ==
    CASE c.op = "ratio" ->
            SeriesRound(SeriesMul(SeriesDiv(Column(df, c.a), Column(df, c.den)),
                                  c.scale), c.digits)
      [] c.op = "diffratio" ->
            SeriesRound(SeriesMul(SeriesDiv(SeriesSub(Column(df, c.a), Column(df, c.b)),
                                            Column(df, c.den)),
                                  c.scale), c.digits)
      [] c.op = "times" -> SeriesTimes(Column(df, c.a), c.scale)

AnyRaised(series) == \E i \in 1..Len(series) : series[i].k = "raise"

\* The month labels strptime's '%b %Y' accepts, with 12 * year + month - 1.
MonthLabels ==
    << "Jan 2023", "Feb 2023", "Mar 2023", "Apr 2023", "May 2023", "Jun 2023",
       "Jul 2023", "Aug 2023", "Sep 2023", "Oct 2023", "Nov 2023", "Dec 2023",
       "Jan 2024" >>
DateTable ==
    [t \in {MonthLabels[i] : i \in DOMAIN MonthLabels} |->
        12 * 2023 + (CHOOSE i \in DOMAIN MonthLabels : MonthLabels[i] = t) - 1]

\* pd.to_datetime(x, format='%b %Y'), one element: an empty cell is NaT, a
\* label the format does not match raises ValueError.
ToDatetime(x) ==
    IF x.k = "nan" THEN Missing
    ELSE IF x.k = "str" /\ x.t \in DOMAIN DateTable THEN Cell("date", DateTable[x.t], 0, "")
    ELSE Raised

SeriesToDatetime(x) == [i \in 1..Len(x) |-> ToDatetime(x[i])]

Outcome(status, src, df) == [status |-> status, src |-> src, df |-> df]
NotRun == Outcome("none", <<>>, <<>>)

\* The column assignments of one load_data from the i-th on; a statement
\* that raises ends the call (TypeError: no table is returned).
RECURSIVE RunColumns(_, _, _, _)
RunColumns(df, cols, i, src) ==
    IF i > Len(cols) THEN Outcome("ok", src, df)
    ELSE LET series == Compute(df, cols[i])
         IN  IF AnyRaised(series) THEN Outcome("TypeError", src, <<>>)
             ELSE RunColumns(Assign(df, cols[i].col, series), cols, i + 1, src)

\* The body of load_data of page fn on the rows read_csv gives for the file.
load_data(fn, file) ==
    LET dates == SeriesToDatetime(Column(file, "date"))
    IN  IF AnyRaised(dates) THEN Outcome("ValueError", file, <<>>)
        ELSE RunColumns(Assign(file, "date_parsed", dates), Columns(fn), 1, file)

(***************************************************************************)
(* get_kpi_status and the aggregates of the pages                          *)
(***************************************************************************)

\* The float64 a cell of a float column holds.
ToFloat(x) ==
    CASE x.k = "num" -> IntDiv(x.v, Pow10(x.d))
      [] x.k = "int" -> FromInt(x.v)
      [] x.k = "inf" -> Inf(x.v)
      [] OTHER -> NaN

\* The literals 0.8 and 1.2: the doubles nearest to 8/10 and 12/10.
Point8 == IntDiv(8, 10)
OnePoint2 == IntDiv(12, 10)

KpiStatus(icon, status) == [icon |-> icon, status |-> status]

\* A status that takes 'within 20 %' strictly (> and < for the warning band).
get_kpi_status_strict(value, benchmark, higher_is_better) ==
    IF higher_is_better
    THEN IF FloatLe(FromInt(benchmark), value) THEN KpiStatus("green", "success")
         ELSE IF FloatLess(FloatMul(Point8, benchmark), value)
              THEN KpiStatus("yellow", "warning")
              ELSE KpiStatus("red", "critical")
    ELSE IF FloatLe(value, FromInt(benchmark)) THEN KpiStatus("green", "success")
         ELSE IF FloatLess(value, FloatMul(OnePoint2, benchmark))
              THEN KpiStatus("yellow", "warning")
              ELSE KpiStatus("red", "critical")

\* get_kpi_status(value, benchmark, higher_is_better) for a float value and
\* an int benchmark > 0; benchmark * 0.8 and benchmark * 1.2 are float64
\* products.  The icons are named by their colour.
get_kpi_status(value, benchmark, higher_is_better) ==
    IF higher_is_better
    THEN IF FloatLe(FromInt(benchmark), value) THEN KpiStatus("green", "success")
         ELSE IF FloatLe(FloatMul(Point8, benchmark), value)
              THEN KpiStatus("yellow", "warning")
              ELSE KpiStatus("red", "critical")
    ELSE IF FloatLe(value, FromInt(benchmark)) THEN KpiStatus("green", "success")
         ELSE IF FloatLe(value, FloatMul(OnePoint2, benchmark))
              THEN KpiStatus("yellow", "warning")
              ELSE KpiStatus("red", "critical")

\* Series.mean(): NaN cells are skipped; the others are summed in float64
\* and the sum is divided by their number; no cell left gives NaN.
RECURSIVE SumFrom(_, _, _)
SumFrom(cells, i, acc) ==
    IF i > Len(cells) THEN acc
    ELSE SumFrom(cells, i + 1,
                 IF cells[i].k = "nan" THEN acc ELSE FloatAdd(acc, ToFloat(cells[i])))

SeriesMean(cells) ==
    LET count == Cardinality({i \in 1..Len(cells) : cells[i].k # "nan"})
    IN  IF count = 0 THEN NaN ELSE FloatDivInt(SumFrom(cells, 1, FZero), count)

(***************************************************************************)
(* Frames cut out of the loaded table                                      *)
(***************************************************************************)

\* A DataFrame made of rows of the loaded table: the rows kept (copies) and
\* their index labels (positions in the file).
Frame(idx, rows) == [idx |-> idx, rows |-> rows]
EmptyFrame == Frame(<<>>, <<>>)
WholeFrame(df) == Frame([i \in 1..Len(df) |-> i], df)

\* frame[mask] for a boolean mask: a new frame of the rows the mask keeps.
Positions(mask) == SelectSeq([i \in 1..Len(mask) |-> i], LAMBDA i : mask[i])
Masked(fr, mask) ==
    LET ks == Positions(mask)
    IN  Frame([j \in 1..Len(ks) |-> fr.idx[ks[j]]],
              [j \in 1..Len(ks) |-> fr.rows[ks[j]]])

\* frame[name] = series
AssignFrame(fr, name, series) == Frame(fr.idx, Assign(fr.rows, name, series))

\* frame[name].sum() of an integer column: empty cells are skipped.
RECURSIVE SumCells(_, _)
SumCells(cells, i) ==
    IF i > Len(cells) THEN 0
    ELSE (IF cells[i].k = "int" THEN cells[i].v ELSE 0) + SumCells(cells, i + 1)
ColumnSum(fr, name) == SumCells(Column(fr.rows, name), 1)

\* 'Urban' in x, for the zone names of the dataset (the test is
\* case-sensitive: 'Peri-urban 3' does not contain 'Urban').
ZoneHasUrban ==
    [z \in {"Zone A", "Zone B", "Urban 1", "Rural Hinterland", "Peri-urban 3"} |->
        z = "Urban 1"]

\* lambda x: 'Urban' if 'Urban' in x else 'Rural'; a missing zone is a float
\* and 'in' raises TypeError.
AreaTypeOf(x) ==
    IF x.k # "str" THEN Raised
    ELSE Text(IF ZoneHasUrban[x.t] THEN "Urban" ELSE "Rural")

\* filtered_df['zone'].apply(lambda ...)
ZoneLabels(fr) == [k \in 1..Len(fr.rows) |-> AreaTypeOf(fr.rows[k]["zone"])]

\* A chained assignment that writes the area label over the zone column too.
AreaTypeOverZone(fr) ==
    AssignFrame(AssignFrame(fr, "area_type", ZoneLabels(fr)), "zone", ZoneLabels(fr))

\* filtered_df['area_type'] = filtered_df['zone'].apply(...)
AreaType(fr) == AssignFrame(fr, "area_type", ZoneLabels(fr))

(***************************************************************************)
(* The dataset                                                             *)
(***************************************************************************)

NumericFields ==
    {"households", "workforce", "f_workforce", "metered", "sewer_connections",
     "public_toilets", "tests_chlorine", "tests_conducted_chlorine",
     "test_passed_chlorine", "tests_ecoli", "test_conducted_ecoli",
     "tests_passed_ecoli", "complaints", "resolved", "complaint_resolution",
     "w_supplied", "total_consumption", "ww_capacity", "ww_treated",
     "ww_collected", "fs_treated", "fs_reused", "hh_emptied"}

IdFields == {"country", "city", "zone", "date", "year"}

RawFields == IdFields \cup NumericFields

\* A row of service_data.csv as read_csv parses it.
Row(country, city, zone, date, year, num) ==
    [f \in RawFields |->
        CASE f = "country" -> Text(country)
          [] f = "city" -> Text(city)
          [] f = "zone" -> Text(zone)
          [] f = "date" -> Text(date)
          [] f = "year" -> IntCell(year)
          [] OTHER -> num[f]]

\* The figures of the specification's examples (85 of 100 chlorine tests,
\* 600 of 1000 households metered, 7 public toilets, consumption 1200 of
\* 1000 supplied), completed to a whole row.
TypicalFigures ==
    [f \in NumericFields |->
        IntCell(CASE f = "households" -> 1000
                  [] f = "workforce" -> 40
                  [] f = "f_workforce" -> 10
                  [] f = "metered" -> 600
                  [] f = "sewer_connections" -> 125
                  [] f = "public_toilets" -> 7
                  [] f = "tests_chlorine" -> 100
                  [] f = "tests_conducted_chlorine" -> 85
                  [] f = "test_passed_chlorine" -> 80
                  [] f = "tests_ecoli" -> 100
                  [] f = "test_conducted_ecoli" -> 80
                  [] f = "tests_passed_ecoli" -> 76
                  [] f = "complaints" -> 160
                  [] f = "resolved" -> 120
                  [] f = "complaint_resolution" -> 3
                  [] f = "w_supplied" -> 1000
                  [] f = "total_consumption" -> 1200
                  [] f = "ww_capacity" -> 800
                  [] f = "ww_treated" -> 500
                  [] f = "ww_collected" -> 640
                  [] f = "fs_treated" -> 160
                  [] f = "fs_reused" -> 40
                  [] f = "hh_emptied" -> 50)]

TypicalRow == Row("cameroon", "Yaounde", "Zone A", "Jan 2023", 2023, TypicalFigures)

\* A zone that reported nothing: every count is zero.
ZeroRow ==
    Row("lesotho", "Maseru", "Urban 1", "Feb 2023", 2023,
        [f \in NumericFields |-> IntCell(0)])

\* A second ordinary row, of another zone and month.
OtherRow ==
    Row("malawi", "Lilongwe", "Zone B", "Jan 2024", 2024,
        [f \in NumericFields |->
            IF f \in {"households", "w_supplied"} THEN IntCell(5000)
            ELSE IF f \in {"public_toilets", "workforce"} THEN IntCell(16)
            ELSE IntCell(2 * TypicalFigures[f].v + 1)])

\* Values a cell of a numeric column is overwritten with: zero, a negative
\* count, small counts (23 / 40, 7 / 160 and 5000 / 16 fall exactly halfway
\* between two roundings), an empty cell and a cell holding text.
CellValues ==
    {IntCell(0), IntCell(-50), IntCell(7), IntCell(16), IntCell(23), Missing, Text("unknown")}

\* Single-row datasets: the typical row, the typical row with one numeric
\* cell overwritten, and the all-zero row.
GridRows ==
    {TypicalRow, ZeroRow} \cup
    {[TypicalRow EXCEPT ![f] = v] : f \in NumericFields, v \in CellValues}

\* Rows of the multi-row datasets.
BatchRows ==
    {TypicalRow, ZeroRow, OtherRow,
     [TypicalRow EXCEPT !["workforce"] = Missing],
     [TypicalRow EXCEPT !["workforce"] = Text("unknown")],
     [OtherRow EXCEPT !["date"] = Text("2024-01")]}

\* Largest number of rows of a multi-row dataset.
MaxRows == 2

\* Rows of the files the pages are rendered from: two zones of Lesotho, a
\* zone losing 28 % of its water, and a zone that was supplied nothing
\* (its nrw_percentage is -1200 / 0 = -inf).
UrbanRow == Row("lesotho", "Maseru", "Urban 1", "Jan 2023", 2023, TypicalFigures)
RuralRow ==
    Row("lesotho", "Mokhotlong", "Rural Hinterland", "Jan 2024", 2024,
        [f \in NumericFields |-> OtherRow[f]])
LeakyRow == [TypicalRow EXCEPT !["total_consumption"] = IntCell(720)]
DryRow == [TypicalRow EXCEPT !["w_supplied"] = IntCell(0)]
\* The zone of UrbanRow a year later, with 60 of 80 E. coli tests passed.
SlippedRow ==
    [UrbanRow EXCEPT !["date"] = Text("Jan 2024"), !["year"] = IntCell(2024),
                     !["tests_passed_ecoli"] = IntCell(60)]

\* Rows of the four country pages: two zones of Cameroon in two cities, two
\* months of one zone of Malawi, two zones of Kampala.
DoualaRow == Row("cameroon", "Douala", "Zone B", "Feb 2023", 2023,
                 [f \in NumericFields |-> OtherRow[f]])
LilongweRow == Row("malawi", "Lilongwe", "Zone B", "Jan 2023", 2023, TypicalFigures)
LilongweLaterRow == Row("malawi", "Lilongwe", "Zone B", "Feb 2023", 2023,
                        [f \in NumericFields |-> OtherRow[f]])
CentralRow == Row("Uganda", "Kampala", "Central", "Jan 2023", 2023, TypicalFigures)
NakawaRow == Row("Uganda", "Kampala", "Nakawa", "Feb 2023", 2023,
                 [f \in NumericFields |-> OtherRow[f]])

\* One zone of Kampala in month i of MonthLabels, with 100 + i of its 160
\* complaints resolved.
KampalaMonth(i) ==
    Row("Uganda", "Kampala", "Central", MonthLabels[i],
        IF MonthLabels[i] = "Jan 2024" THEN 2024 ELSE 2023,
        [TypicalFigures EXCEPT !["resolved"] = IntCell(100 + i)])

\* A file with records of the four countries.
CountryFiles ==
    {<<TypicalRow, DoualaRow, UrbanRow, RuralRow, LilongweRow, LilongweLaterRow,
       CentralRow, NakawaRow>>}

\* A file with thirteen months of one zone of Kampala.
HeatmapFiles == {[i \in DOMAIN MonthLabels |-> KampalaMonth(i)]}

\* Each file holds at most two rows with a finite value per derived column,
\* so that a column sum is one float64 addition whatever order it is taken in.
PageFiles ==
    {<<LeakyRow, ZeroRow, RuralRow>>,
     <<UrbanRow, DryRow, RuralRow>>,
     <<UrbanRow, SlippedRow>>,
     <<UrbanRow, [RuralRow EXCEPT !["workforce"] = Text("unknown")]>>}

(***************************************************************************)
(* State                                                                   *)
(***************************************************************************)

\* csv: the rows of service_data.csv.  loaded[fn]: what the latest call of
\* page fn's load_data gave, with the rows it read (src).  A table returned
\* is kept by st.cache_data and returned again by every later call; an
\* exception is not cached.  called[fn]: the rows the file held when page
\* fn's load_data was called last.  view: what the latest script run of a
\* page left: the page, how the run ended, the widget values (sel), the
\* page's filtered_df and the figures it displayed.
VARIABLES csv, loaded, called, view

vars == <<csv, loaded, called, view>>

View(page, status, sel, filtered, card) ==
    [page |-> page, status |-> status, sel |-> sel, filtered |-> filtered,
     card |-> card]
NoSel == [none |-> TRUE]
NoCard == [none |-> TRUE]
NoView == View("", "none", NoSel, EmptyFrame, NoCard)

Init ==
    /\ csv = <<>>
    /\ loaded = [fn \in Fns |-> NotRun]
    /\ called = [fn \in Fns |-> <<>>]
    /\ view = NoView

InitRecord ==
    /\ csv \in {<<r>> : r \in GridRows}
    /\ loaded = [fn \in Fns |-> NotRun]
    /\ called = [fn \in Fns |-> <<>>]
    /\ view = NoView

NothingLoaded == \A fn \in Fns : loaded[fn] = NotRun

\* The utility adds a row to the file.
AppendRow(r) ==
    /\ Len(csv) < MaxRows
    /\ csv' = Append(csv, r)
    /\ UNCHANGED <<loaded, called, view>>

\* A script run calls load_data() of page fn.  @st.cache_data keys the
\* entry on the function alone (load_data takes no argument), so a table
\* once returned is returned again whatever the file holds by then.
LoadData(fn) ==
    /\ loaded' = [loaded EXCEPT ![fn] =
                     IF @.status = "ok" THEN @ ELSE load_data(fn, csv)]
    /\ called' = [called EXCEPT ![fn] = csv]
    /\ UNCHANGED <<csv, view>>

\* The file is written first, then served.
Next ==
    \/ \E r \in BatchRows : NothingLoaded /\ AppendRow(r)
    \/ \E fn \in Fns : LoadData(fn)

Spec == Init /\ [][Next]_vars

NextRecord == \E fn \in Fns : LoadData(fn)

SpecRecord == InitRecord /\ [][NextRecord]_vars

\* The file keeps growing while the dashboard is being served: rows are
\* appended between calls of load_data of the overview and of a page.
ReloadRows ==
    {TypicalRow, OtherRow, [TypicalRow EXCEPT !["workforce"] = Text("unknown")]}

ReloadFns == {"app", "uganda"}

NextReload ==
    \/ \E r \in ReloadRows : AppendRow(r)
    \/ \E fn \in ReloadFns : LoadData(fn)

SpecReload == Init /\ [][NextReload]_vars

(***************************************************************************)
(* Calls of get_kpi_status                                                 *)
(***************************************************************************)

\* Benchmarks: the three main() passes (25, 80, 95) and two others.
Benchmarks == {3, 7, 25, 80, 95}

\* Values around the three thresholds of a benchmark, in hundredths, and the
\* values a mean can be besides: NaN, the infinities and zero.
StatusValues(benchmark) ==
    {Dec(f * benchmark + step, 2) : f \in {80, 100, 120}, step \in {-1, 0, 1}}
    \cup {Missing, CInf(1), CInf(-1), IntCell(0)}

\* One call get_kpi_status(value, benchmark, higher_is_better).
GetKpiStatus ==
    \E benchmark \in Benchmarks, higher_is_better \in BOOLEAN :
       \E value \in StatusValues(benchmark) :
          /\ view' = View("get_kpi_status", "ok",
                          [value |-> value, benchmark |-> benchmark,
                           higher_is_better |-> higher_is_better],
                          EmptyFrame,
                          get_kpi_status(ToFloat(value), benchmark, higher_is_better))
          /\ UNCHANGED <<csv, loaded, called>>

NextStatus ==
    \/ GetKpiStatus

SpecStatus == Init /\ [][NextStatus]_vars

(***************************************************************************)
(* The derived columns the scripts read                                    *)
(***************************************************************************)

\* The derived columns each script reads after its load_data call, in its
\* metrics, groupings, charts and tables (string keys of the frames).
AppReads ==
    {"complaint_resolution_efficiency", "connections_per_employee",
     "ecoli_pass_rate", "metering_coverage", "nrw_percentage",
     "population_estimate", "ww_treatment_coverage"}

CameroonReads ==
    {"chlorine_execution_rate", "chlorine_pass_rate",
     "complaint_resolution_efficiency", "complaints_per_1000_hh",
     "connections_per_employee", "ecoli_execution_rate", "ecoli_pass_rate",
     "metering_coverage", "nrw_percentage", "ww_capacity_utilization"}

LesothoReads ==
    {"chlorine_execution_rate", "chlorine_pass_rate", "complaints_per_1000_hh",
     "connections_per_employee", "ecoli_execution_rate", "ecoli_pass_rate",
     "metering_coverage", "nrw_percentage", "sewer_connection_density"}

MalawiReads ==
    {"chlorine_execution_rate", "chlorine_pass_rate",
     "complaint_resolution_efficiency", "complaints_per_1000_hh",
     "connections_per_employee", "ecoli_execution_rate", "ecoli_pass_rate",
     "metering_coverage", "nrw_percentage", "people_per_toilet",
     "population_estimate"}

UgandaReads ==
    {"chlorine_pass_rate", "complaint_resolution_efficiency",
     "complaints_per_1000_hh", "connections_per_employee", "ecoli_pass_rate",
     "metering_coverage", "nrw_percentage"}

PageReads ==
    [fn \in Fns |->
       CASE fn = "app" -> AppReads
         [] fn = "cameroon" -> CameroonReads
         [] fn = "lesotho" -> LesothoReads
         [] fn = "malawi" -> MalawiReads
         [] OTHER -> UgandaReads]

(***************************************************************************)
(* Script runs of the pages                                                *)
(***************************************************************************)

\* load_data() depends on the file alone: what each page's load_data()
\* gives for the files the page runs start from, worked out once.
StartFiles == PageFiles \cup CountryFiles \cup HeatmapFiles
LoadedFrom ==
    {[file |-> f, fn |-> fn, o |-> load_data(fn, f)] : f \in StartFiles, fn \in Fns}

\* What load_data() gives the script run of page fn that calls it now.
Call(fn) ==
    IF loaded[fn].status = "ok" THEN loaded[fn]
    ELSE IF csv \in StartFiles
         THEN (CHOOSE t \in LoadedFrom : t.file = csv /\ t.fn = fn).o
    ELSE load_data(fn, csv)


ColumnSet(fr, name) == {fr.rows[k][name] : k \in 1..Len(fr.rows)}

\* The values of a multiselect whose options are 'All' and the values of a
\* column: 'All' ticked or not, with none or one of the values.
Picks(S) ==
    {[all |-> a, items |-> {}] : a \in BOOLEAN}
    \cup {[all |-> a, items |-> {x}] : a \in BOOLEAN, x \in S}

\* A filter that restricts to the selected values even when 'All' is
\* selected alongside them.
PickFilterSelected(fr, name, pick) ==
    IF pick.items # {}
    THEN Masked(fr, [k \in 1..Len(fr.rows) |-> fr.rows[k][name] \in pick.items])
    ELSE fr

\* if 'All' not in selected and selected: frame[frame[name].isin(selected)]
PickFilter(fr, name, pick) ==
    IF ~pick.all /\ pick.items # {}
    THEN Masked(fr, [k \in 1..Len(fr.rows) |-> fr.rows[k][name] \in pick.items])
    ELSE fr

\* if len(date_range) == 2: the rows whose month lies in the range.  A range
\* is one day (only the start was picked yet) or two; the days offered here
\* are the month starts of the rows, in ranges that begin at the first or
\* end at the last of them.
DateFilter(fr, date_range) ==
    IF Len(date_range) = 2
    THEN Masked(fr, [k \in 1..Len(fr.rows) |->
                        /\ fr.rows[k]["date_parsed"].v >= date_range[1]
                        /\ fr.rows[k]["date_parsed"].v <= date_range[2]])
    ELSE fr

DateRanges(fr) ==
    LET days == {c.v : c \in ColumnSet(fr, "date_parsed")}
        first == {d \in days : \A e \in days : d <= e}
        last == {d \in days : \A e \in days : d >= e}
    IN  {<<d>> : d \in first}
        \cup {<<lo, hi>> : lo \in first, hi \in days}
        \cup {<<lo, hi>> : lo \in days, hi \in last}

\* df[df['country'] == name].copy()
CountryFrame(df, name) ==
    Masked(WholeFrame(df), [i \in 1..Len(df) |-> df[i]["country"] = Text(name)])

\* The sidebar of a country page: the values each widget can be given.
PageWidgets(o, country) ==
    IF o.status # "ok" THEN NoSel
    ELSE LET country_df == CountryFrame(o.df, country)
         IN  [date_range |-> DateRanges(country_df),
              selected_zones |-> Picks(ColumnSet(country_df, "zone")),
              selected_years |-> Picks(ColumnSet(country_df, "year"))]

\* filtered_df of a country page after its three filters.
PageFiltered(df, country, sel) ==
    PickFilter(PickFilter(DateFilter(CountryFrame(df, country), sel.date_range),
                          "zone", sel.selected_zones),
               "year", sel.selected_years)

Aborted(page, status) == View(page, status, NoSel, EmptyFrame, NoCard)

\* default=['All'] of the zone and year multiselects
AllPick == [all |-> TRUE, items |-> {}]

\* The sidebar of a country page when the page is opened: the whole date
\* range, 'All' zones, 'All' years.
PageDefaults(o, country) ==
    IF o.status # "ok" THEN NoSel
    ELSE LET days == {c.v : c \in ColumnSet(CountryFrame(o.df, country), "date_parsed")}
         IN  [date_range |-> << CHOOSE d \in days : \A e \in days : d <= e,
                                CHOOSE d \in days : \A e \in days : d >= e >>,
              selected_zones |-> AllPick,
              selected_years |-> AllPick]

\* A sidebar with one more widget than the three filters (its value, or
\* the values it can be given).
WithWidget(sel, name, value) ==
    IF sel = NoSel THEN NoSel
    ELSE [w \in DOMAIN sel \cup {name} |-> IF w = name THEN value ELSE sel[w]]

\* Streamlit runs the script of a page with the widgets at their defaults
\* when the page is opened, and again whenever the value of one widget has
\* changed: the widget values of the runs that can come next.
Reruns(page, widgets, defaults) ==
    IF view.page = page /\ view.sel # NoSel
    THEN UNION {{[view.sel EXCEPT ![w] = v] : v \in widgets[w]} : w \in DOMAIN widgets}
    ELSE {defaults}

\* The KPI row of a country page: the record count of the sidebar and the
\* first metric.
KpiCard(fr) ==
    [records |-> Len(fr.rows),
     avg_ecoli |-> SeriesMean(Column(fr.rows, "ecoli_pass_rate"))]

\* urban_rural[urban_rural['area_type'] == area]: the rows of one group of
\* filtered_df.groupby('area_type'); no row when the group does not exist.
AreaRows(fr, area) ==
    Masked(fr, [k \in 1..Len(fr.rows) |-> fr.rows[k]["area_type"] = Text(area)])

\* The bars of fig4: urban_rural[...]['households'].values[0] for the Urban
\* and for the Rural group.
InfrastructureBars(fr) ==
    [urban_households |-> ColumnSum(AreaRows(fr, "Urban"), "households"),
     rural_households |-> ColumnSum(AreaRows(fr, "Rural"), "households")]

\* .values[0] of a group that has no row raises IndexError.
BarsRaise(fr) ==
    \E area \in {"Urban", "Rural"} : AreaRows(fr, area).rows = <<>>

\* The script of the Lesotho page on the table load_data gave it: the
\* filters, then the area_type column and the Urban-vs-Rural bars of tab 2.
\* The metrics, groupings and charts in between read filtered_df and assign
\* nothing to it.
LesothoScript(o, sel) ==
    IF o.status # "ok" THEN Aborted("lesotho", o.status)
    ELSE LET filtered_df == PageFiltered(o.df, "lesotho", sel)
             labelled == AreaType(filtered_df)
         IN  IF AnyRaised(ZoneLabels(filtered_df))
             THEN Aborted("lesotho", "TypeError")
             ELSE IF BarsRaise(labelled)
             THEN View("lesotho", "IndexError", sel, labelled, NoCard)
             ELSE View("lesotho", "ok", sel, labelled, InfrastructureBars(labelled))

\* A run of pages/2_Lesotho.py with the sidebar set to sel.
Lesotho ==
    \E o \in {Call("lesotho")} :
        \E sel \in Reruns("lesotho", PageWidgets(o, "lesotho"), PageDefaults(o, "lesotho")) :
           /\ loaded' = [loaded EXCEPT !["lesotho"] = o]
           /\ called' = [called EXCEPT !["lesotho"] = csv]
           /\ view' = LesothoScript(o, sel)
           /\ UNCHANGED csv

\* The benchmark of the Sector-Wide NRW card.
NrwBenchmark == 25

\* The sidebar of the overview: a multiselect of the countries of the table
\* and a slider of two years between its first and its last year.
MainWidgets(o) ==
    IF o.status # "ok" \/ Len(o.df) = 0 THEN NoSel
    ELSE LET years == {c.v : c \in ColumnSet(WholeFrame(o.df), "year")}
         IN  [selected_countries |-> SUBSET ColumnSet(WholeFrame(o.df), "country"),
              year_range |-> {r \in years \X years : r[1] <= r[2]}]

\* default=all_countries and value=(min, max)
MainDefaults(o) ==
    IF o.status # "ok" \/ Len(o.df) = 0 THEN NoSel
    ELSE LET years == {c.v : c \in ColumnSet(WholeFrame(o.df), "year")}
         IN  [selected_countries |-> ColumnSet(WholeFrame(o.df), "country"),
              year_range |-> << CHOOSE y \in years : \A z \in years : y <= z,
                                CHOOSE y \in years : \A z \in years : y >= z >>]

\* The Sector-Wide NRW card: the mean, the icon and status of
\* get_kpi_status, and the word of the delta text.
NrwCard(avg_nrw) ==
    LET kpi == get_kpi_status(avg_nrw, NrwBenchmark, FALSE)
    IN  [avg_nrw |-> avg_nrw, icon |-> kpi.icon, status |-> kpi.status,
         text |-> IF FloatLess(FromInt(NrwBenchmark), avg_nrw) THEN "Above" ELSE "Below"]

\* A filter under which no selected country means every country.
MainFilteredAllWhenEmpty(df, sel) ==
    Masked(WholeFrame(df),
           [i \in 1..Len(df) |->
               /\ \/ sel.selected_countries = {}
                  \/ df[i]["country"] \in sel.selected_countries
               /\ df[i]["year"].v >= sel.year_range[1]
               /\ df[i]["year"].v <= sel.year_range[2]])

\* filtered_df = df[country.isin(selected_countries) & (year >= lo) & (year <= hi)]
MainFiltered(df, sel) ==
    Masked(WholeFrame(df),
           [i \in 1..Len(df) |->
               /\ df[i]["country"] \in sel.selected_countries
               /\ df[i]["year"].v >= sel.year_range[1]
               /\ df[i]["year"].v <= sel.year_range[2]])

\* The thresholds of the overview: 95% E. coli pass rate, 25% NRW.
EcoliStandard == 95

\* frame['ecoli_pass_rate'] >= 95 and < 95, frame['nrw_percentage'] > 25,
\* one element (False for NaN).
MeetsStandard(row) == FloatLe(FromInt(EcoliStandard), ToFloat(row["ecoli_pass_rate"]))
BelowStandard(row) == FloatLess(ToFloat(row["ecoli_pass_rate"]), FromInt(EcoliStandard))
HighNrw(row) == FloatLess(FromInt(NrwBenchmark), ToFloat(row["nrw_percentage"]))

\* frame[mask]['zone'].unique() and the groups of frame[mask].groupby('zone')
ZonesWhere(fr, mask) == ColumnSet(Masked(fr, mask), "zone")

\* A share computed without the guard.
UnguardedShare(part, whole) == FloatMul(IntDiv(part, whole), 100)

\* (part / whole * 100) if whole > 0 else 0
GuardedShare(part, whole) ==
    IF whole > 0 THEN FloatMul(IntDiv(part, whole), 100) ELSE FZero

\* The aggregates main() computes from filtered_df for the cards and alerts.
Aggregates(fr) ==
    LET total_metered == ColumnSum(fr, "metered")
        total_households == ColumnSum(fr, "households")
        compliant_zones == ZonesWhere(fr, [k \in 1..Len(fr.rows) |-> MeetsStandard(fr.rows[k])])
        total_utilities == Cardinality(ColumnSet(fr, "zone"))
        compliant_utilities == Cardinality(compliant_zones)
        high_nrw_count == Cardinality({k \in 1..Len(fr.rows) : HighNrw(fr.rows[k])})
        total_records == Len(fr.rows)
    IN  [total_population |-> total_households * 5,
         total_metered |-> total_metered,
         total_households |-> total_households,
         avg_water_coverage |-> GuardedShare(total_metered, total_households),
         total_utilities |-> total_utilities,
         compliant_zones |-> compliant_zones,
         compliant_utilities |-> compliant_utilities,
         compliance_rate |-> GuardedShare(compliant_utilities, total_utilities),
         high_nrw_count |-> high_nrw_count,
         total_records |-> total_records,
         high_nrw_pct |-> GuardedShare(high_nrw_count, total_records),
         poor_quality_zones |-> ZonesWhere(fr, [k \in 1..Len(fr.rows) |-> BelowStandard(fr.rows[k])])]

\* main() of app.py up to the alerts, on the table load_data gave it.  On
\* an empty table int(df['year'].min()) raises ValueError.
MainScript(o, sel) ==
    IF o.status # "ok" THEN Aborted("app", o.status)
    ELSE IF Len(o.df) = 0 THEN Aborted("app", "ValueError")
    ELSE LET filtered_df == MainFiltered(o.df, sel)
             avg_nrw == SeriesMean(Column(filtered_df.rows, "nrw_percentage"))
         IN  View("app", "ok", sel, filtered_df,
                  NrwCard(avg_nrw) @@ Aggregates(filtered_df))

\* A run of app.py with the sidebar set to sel.
Main ==
    \E o \in {Call("app")} :
        \E sel \in Reruns("app", MainWidgets(o), MainDefaults(o)) :
           /\ loaded' = [loaded EXCEPT !["app"] = o]
           /\ called' = [called EXCEPT !["app"] = csv]
           /\ view' = MainScript(o, sel)
           /\ UNCHANGED csv

(***************************************************************************)
(* The Cameroon, Malawi and Uganda pages                                   *)
(***************************************************************************)

\* st.sidebar.selectbox("Select City", ['All'] + cities): 'All' comes first
\* and is the default.
Cities(o) ==
    {Text("All")} \cup ColumnSet(CountryFrame(o.df, "cameroon"), "city")

\* if selected_city != 'All': filtered_df[filtered_df['city'] == selected_city]
CityFilter(fr, selected_city) ==
    IF selected_city # Text("All")
    THEN Masked(fr, [k \in 1..Len(fr.rows) |-> fr.rows[k]["city"] = selected_city])
    ELSE fr

\* filtered_df of the Cameroon page: date, zone, city, year.
CameroonFiltered(df, sel) ==
    PickFilter(CityFilter(PickFilter(DateFilter(CountryFrame(df, "cameroon"),
                                                sel.date_range),
                                     "zone", sel.selected_zones),
                          sel.selected_city),
               "year", sel.selected_years)

CameroonScript(o, sel) ==
    IF o.status # "ok" THEN Aborted("cameroon", o.status)
    ELSE LET filtered_df == CameroonFiltered(o.df, sel)
         IN  View("cameroon", "ok", sel, filtered_df, KpiCard(filtered_df))

\* A run of pages/1_Cameroon.py.
Cameroon ==
    \E o \in {Call("cameroon")} :
        \E sel \in Reruns("cameroon",
                          WithWidget(PageWidgets(o, "cameroon"), "selected_city", Cities(o)),
                          WithWidget(PageDefaults(o, "cameroon"), "selected_city", Text("All"))) :
           /\ loaded' = [loaded EXCEPT !["cameroon"] = o]
           /\ called' = [called EXCEPT !["cameroon"] = csv]
           /\ view' = CameroonScript(o, sel)
           /\ UNCHANGED csv

\* st.sidebar.selectbox("Focus Area", [...]): the first option is the default.
FocusAreas == <<"Overview", "Water Quality", "Customer Service", "Infrastructure">>

\* filtered_df of the Malawi page; metric_view is not read.
MalawiFiltered(df, sel) == PageFiltered(df, "malawi", sel)

MalawiScript(o, sel) ==
    IF o.status # "ok" THEN Aborted("malawi", o.status)
    ELSE LET filtered_df == MalawiFiltered(o.df, sel)
         IN  View("malawi", "ok", sel, filtered_df, KpiCard(filtered_df))

\* A run of pages/3_Malawi.py.
Malawi ==
    \E o \in {Call("malawi")} :
        \E sel \in Reruns("malawi",
                          WithWidget(PageWidgets(o, "malawi"), "metric_view",
                                     {FocusAreas[i] : i \in DOMAIN FocusAreas}),
                          WithWidget(PageDefaults(o, "malawi"), "metric_view", FocusAreas[1])) :
           /\ loaded' = [loaded EXCEPT !["malawi"] = o]
           /\ called' = [called EXCEPT !["malawi"] = csv]
           /\ view' = MalawiScript(o, sel)
           /\ UNCHANGED csv

\* st.sidebar.selectbox("Complaint Analysis Period", [...])
FocusPeriods == <<"All Years", "2022-2024", "2020-2021">>

\* The years a complaint analysis period names.
PeriodYears ==
    [p \in {FocusPeriods[i] : i \in DOMAIN FocusPeriods} |->
        CASE p = "2022-2024" -> 2022..2024
          [] p = "2020-2021" -> 2020..2021
          [] OTHER -> 2020..2024]

\* A filter that also keeps only the years of the complaint analysis period.
UgandaFilteredByPeriod(df, sel) ==
    LET fr == PageFiltered(df, "Uganda", sel)
    IN  Masked(fr, [k \in 1..Len(fr.rows) |->
                       fr.rows[k]["year"].v \in PeriodYears[sel.focus_period]])

\* filtered_df of the Uganda page; focus_period is not read.
UgandaFiltered(df, sel) == PageFiltered(df, "Uganda", sel)

\* The elements of a set of integers in ascending order.
RECURSIVE Ascending(_)
Ascending(S) ==
    IF S = {} THEN <<>>
    ELSE LET m == CHOOSE x \in S : \A y \in S : x <= y
         IN  <<m>> \o Ascending(S \ {m})

\* zone_month.groupby(['zone', 'month']) ... 'mean', one cell of the pivot:
\* NaN where the zone has no record in the month.
ZoneMonthMean(fr, zone, month) ==
    SeriesMean(Column(Masked(fr, [k \in 1..Len(fr.rows) |->
                                     /\ fr.rows[k]["zone"] = zone
                                     /\ fr.rows[k]["date_parsed"].v = month]).rows,
                      "complaint_resolution_efficiency"))

\* pivot_data.columns[-12:]
LastMonths == 12
LastColumns(months) ==
    SubSeq(months,
           IF Len(months) > LastMonths THEN Len(months) - LastMonths + 1 ELSE 1,
           Len(months))

\* The arguments of go.Heatmap: z = pivot_data.values (a row per zone, a
\* column per month of filtered_df, months ascending) and
\* x = pivot_data.columns[-12:].  A month label 'YYYY-MM' is kept as the
\* month it names; labels sort as their months do.
Heatmap(fr) ==
    LET months == Ascending({c.v : c \in ColumnSet(fr, "date_parsed")})
    IN  [x |-> LastColumns(months),
         z |-> [zone \in ColumnSet(fr, "zone") |->
                   [j \in 1..Len(months) |-> ZoneMonthMean(fr, zone, months[j])]]]

UgandaScript(o, sel) ==
    IF o.status # "ok" THEN Aborted("uganda", o.status)
    ELSE LET filtered_df == UgandaFiltered(o.df, sel)
         IN  View("uganda", "ok", sel, filtered_df,
                  [records |-> Len(filtered_df.rows)] @@ Heatmap(filtered_df))

\* A run of pages/4_Uganda.py.
Uganda ==
    \E o \in {Call("uganda")} :
        \E sel \in Reruns("uganda",
                          WithWidget(PageWidgets(o, "Uganda"), "focus_period",
                                     {FocusPeriods[i] : i \in DOMAIN FocusPeriods}),
                          WithWidget(PageDefaults(o, "Uganda"), "focus_period", FocusPeriods[1])) :
           /\ loaded' = [loaded EXCEPT !["uganda"] = o]
           /\ called' = [called EXCEPT !["uganda"] = csv]
           /\ view' = UgandaScript(o, sel)
           /\ UNCHANGED csv

InitCountry ==
    /\ csv \in CountryFiles
    /\ loaded = [fn \in Fns |-> NotRun]
    /\ called = [fn \in Fns |-> <<>>]
    /\ view = NoView

NextCountry ==
    \/ Cameroon
    \/ Lesotho
    \/ Malawi
    \/ Uganda

SpecCountry == InitCountry /\ [][NextCountry]_vars

InitHeatmap ==
    /\ csv \in HeatmapFiles
    /\ loaded = [fn \in Fns |-> NotRun]
    /\ called = [fn \in Fns |-> <<>>]
    /\ view = NoView

NextHeatmap ==
    \/ Uganda

SpecHeatmap == InitHeatmap /\ [][NextHeatmap]_vars

InitPages ==
    /\ csv \in PageFiles
    /\ loaded = [fn \in Fns |-> NotRun]
    /\ called = [fn \in Fns |-> <<>>]
    /\ view = NoView

NextPages ==
    \/ Lesotho
    \/ Main

SpecPages == InitPages /\ [][NextPages]_vars

(***************************************************************************)
(* The derived fields as the specification's table states them             *)
(***************************************************************************)

\* field = (n - m) * mult / d * scale, rounded to `digits` decimals.
Formula(n, m, mult, d, scale, digits) ==
    [n |-> n, m |-> m, mult |-> mult, d |-> d, scale |-> scale, digits |-> digits]

RatioFields ==
    {"chlorine_execution_rate", "chlorine_pass_rate", "ecoli_execution_rate",
     "ecoli_pass_rate", "complaint_resolution_efficiency", "complaints_per_1000_hh",
     "female_workforce_ratio", "connections_per_employee", "ww_capacity_utilization",
     "ww_collection_efficiency", "ww_treatment_coverage", "sewer_connection_density",
     "fs_service_coverage", "fs_reuse_rate", "water_per_connection",
     "nrw_percentage", "metering_coverage", "people_per_toilet"}

DerivedFields == RatioFields \cup {"population_estimate"}

SpecTable ==
    [col \in RatioFields |->
        CASE col = "chlorine_execution_rate" ->
                Formula("tests_conducted_chlorine", "", 1, "tests_chlorine", 100, 2)
          [] col = "chlorine_pass_rate" ->
                Formula("test_passed_chlorine", "", 1, "tests_conducted_chlorine", 100, 2)
          [] col = "ecoli_execution_rate" ->
                Formula("test_conducted_ecoli", "", 1, "tests_ecoli", 100, 2)
          [] col = "ecoli_pass_rate" ->
                Formula("tests_passed_ecoli", "", 1, "test_conducted_ecoli", 100, 2)
          [] col = "complaint_resolution_efficiency" ->
                Formula("resolved", "", 1, "complaints", 100, 2)
          [] col = "complaints_per_1000_hh" ->
                Formula("complaints", "", 1, "households", 1000, 2)
          [] col = "female_workforce_ratio" ->
                Formula("f_workforce", "", 1, "workforce", 100, 2)
          [] col = "connections_per_employee" ->
                Formula("metered", "", 1, "workforce", 1, 2)
          [] col = "ww_capacity_utilization" ->
                Formula("ww_treated", "", 1, "ww_capacity", 100, 2)
          [] col = "ww_collection_efficiency" ->
                Formula("ww_collected", "", 1, "total_consumption", 100, 2)
          [] col = "ww_treatment_coverage" ->
                Formula("ww_treated", "", 1, "ww_collected", 100, 2)
          [] col = "sewer_connection_density" ->
                Formula("sewer_connections", "", 1, "households", 1, 3)
          [] col = "fs_service_coverage" ->
                Formula("hh_emptied", "", 1, "households", 100, 2)
          [] col = "fs_reuse_rate" ->
                Formula("fs_reused", "", 1, "fs_treated", 100, 2)
          [] col = "water_per_connection" ->
                Formula("w_supplied", "", 1, "metered", 1, 2)
          [] col = "nrw_percentage" ->
                Formula("w_supplied", "total_consumption", 1, "w_supplied", 100, 2)
          [] col = "metering_coverage" ->
                Formula("metered", "", 1, "households", 100, 2)
          [] col = "people_per_toilet" ->
                Formula("households", "", 5, "public_toilets", 1, 0)]

\* The raw fields a derived field reads.
Uses(col) ==
    IF col = "population_estimate" THEN {"households"}
    ELSE {SpecTable[col].n, SpecTable[col].m, SpecTable[col].d} \ {""}

\* The raw fields the derived field divides by.
Denominator(col) == SpecTable[col].d

AllDenominators == {Denominator(col) : col \in RatioFields}

Numeric(r, fields) == \A f \in fields : r[f].k = "int"

\* Numerator and denominator of the exact value of the field on raw row r.
Num(col, r) ==
    LET f == SpecTable[col]
    IN  (r[f.n].v - (IF f.m = "" THEN 0 ELSE r[f.m].v)) * f.mult * f.scale
Den(col, r) == r[SpecTable[col].d].v

Finite(cell) == cell.k \in {"num", "int"}
Undefined(cell) == cell.k \in {"nan", "inf"}

\* The cell is a number on the grid of 10^-digits and lies within half a
\* unit of that grid of num / den.
Nearest(cell, num, den, digits) ==
    /\ cell.k = "num"
    /\ cell.d <= digits \/ cell.v % Pow10(cell.d - digits) = 0
    /\ LET v == IF cell.d <= digits THEN cell.v * Pow10(digits - cell.d)
                ELSE cell.v \div Pow10(cell.d - digits)
       IN  2 * Abs(v * den - num * Pow10(digits)) <= Abs(den)

\* The cell is num / den rounded to `digits` decimals, a tie going to the
\* even neighbour.
HalfEven(cell, num, den, digits) ==
    /\ Nearest(cell, num, den, digits)
    /\ 2 * Abs(cell.v * den - num * Pow10(digits)) = Abs(den) => cell.v % 2 = 0

\* The field of row i of a returned table is its formula's value on the row
\* the table was derived from.
FieldCorrect(o, i, col) ==
    IF col = "population_estimate"
    THEN o.df[i][col] = IntCell(o.src[i]["households"].v * 5)
    ELSE Nearest(o.df[i][col], Num(col, o.src[i]), Den(col, o.src[i]),
                 SpecTable[col].digits)

Returned(fn) == loaded[fn].status = "ok"
ColumnNames(fn) == {Columns(fn)[j].col : j \in 1..Len(Columns(fn))}
Rows(o) == 1..Len(o.src)

(***************************************************************************)
(* Claims                                                                  *)
(***************************************************************************)

\* C1: for every raw record whose denominators are all non-zero, load_data
\* of app.py sets each of the 19 derived fields to the value of its formula
\* in the table of derived fields (to the rounding of the field); 85 of 100
\* chlorine tests give 85.00, 600 of 1000 households give 60.00 and a
\* population estimate of 5000.
C1_FormulaCorrect ==
    LET o == loaded["app"]
    IN  Returned("app") =>
          \A i \in Rows(o) :
             (/\ Numeric(o.src[i], NumericFields)
              /\ \A f \in AllDenominators : o.src[i][f].v # 0)
             => /\ DerivedFields \subseteq DOMAIN o.df[i]
                /\ \A col \in DerivedFields : FieldCorrect(o, i, col)
                /\ (o.src[i]["tests_chlorine"] = IntCell(100)
                    /\ o.src[i]["tests_conducted_chlorine"] = IntCell(85))
                   => o.df[i]["chlorine_execution_rate"] = Dec(8500, 2)
                /\ (o.src[i]["households"] = IntCell(1000)
                    /\ o.src[i]["metered"] = IntCell(600))
                   => /\ o.df[i]["metering_coverage"] = Dec(6000, 2)
                      /\ o.df[i]["population_estimate"] = IntCell(5000)

C1_Witness ==
    /\ Returned("app")
    /\ loaded["app"].src = <<TypicalRow>>
    /\ loaded["app"].df[1]["chlorine_execution_rate"] = Dec(8500, 2)
    /\ loaded["app"].df[1]["chlorine_pass_rate"] = Dec(9412, 2)
    /\ loaded["app"].df[1]["metering_coverage"] = Dec(6000, 2)
    /\ loaded["app"].df[1]["population_estimate"] = IntCell(5000)

\* C2: whenever the denominator of a derived field is zero, the field is an
\* explicit 'undefined' marker and never a floating-point infinity or NaN.
C2_ZeroDenominatorMarked ==
    \A fn \in Fns :
       Returned(fn) =>
          \A i \in Rows(loaded[fn]) : \A col \in ColumnNames(fn) \cap RatioFields :
             (Numeric(loaded[fn].src[i], Uses(col)) /\ Den(col, loaded[fn].src[i]) = 0)
             => loaded[fn].df[i][col].k \notin {"nan", "inf"}

\* A row read_csv parses to numbers throughout: every numeric cell is an
\* integer or empty, and the month label matches '%b %Y'.
WellFormedRow(r) ==
    /\ \A f \in NumericFields : r[f].k \in {"int", "nan"}
    /\ r["date"].k = "str" /\ r["date"].t \in DOMAIN DateTable

\* A malformed record: a required raw field is absent or is not a number.
Malformed(r) == \E f \in NumericFields : r[f].k \in {"nan", "str"}

C4_MissingWorkforceIsolated ==
    \A fn \in Fns :
       LET o == loaded[fn]
       IN  \A i \in Rows(o) :
              (/\ o.status # "none"
               /\ o.src[i]["workforce"].k = "nan"
               /\ Numeric(o.src[i], NumericFields \ {"workforce"}))
              => /\ Returned(fn)
                 /\ o.df[i]["female_workforce_ratio"] = Missing
                 /\ o.df[i]["connections_per_employee"] = Missing
                 /\ \A col \in ColumnNames(fn) :
                       (/\ "workforce" \notin Uses(col)
                        /\ col \in RatioFields => Den(col, o.src[i]) # 0)
                       => FieldCorrect(o, i, col)

C4_Witness ==
    /\ Returned("app")
    /\ loaded["app"].src = <<[TypicalRow EXCEPT !["workforce"] = Missing]>>
    /\ loaded["app"].df[1]["female_workforce_ratio"] = Missing
    /\ loaded["app"].df[1]["connections_per_employee"] = Missing
    /\ loaded["app"].df[1]["metering_coverage"] = Dec(6000, 2)

\* C5: for every batch that contains one malformed record (a required raw
\* field absent or non-numeric), the derivation does not abort: every other
\* record of the batch still gets its derived fields.
C5_MalformedRecordNotFatal ==
    \A fn \in Fns :
       LET o == loaded[fn]
           bad == {i \in Rows(o) : Malformed(o.src[i])}
       IN  (/\ o.status # "none"
            /\ Cardinality(bad) = 1
            /\ \A i \in Rows(o) : o.src[i]["date"].t \in DOMAIN DateTable)
           => /\ Returned(fn)
              /\ Len(o.df) = Len(o.src)
              /\ \A i \in Rows(o) \ bad : \A col \in ColumnNames(fn) :
                    col \in DOMAIN o.df[i]

\* C6: a zero denominator in one derived field of a record makes only the
\* derived fields that divide by that raw field undefined (not a finite
\* number); every other derived field of the record has its normal value.
C6_ZeroDenominatorIsolated ==
    \A fn \in Fns :
       LET o == loaded[fn]
       IN  \A i \in Rows(o) :
              (/\ o.status # "none"
               /\ Numeric(o.src[i], NumericFields)
               /\ \E f \in AllDenominators : o.src[i][f].v = 0)
              => /\ Returned(fn)
                 /\ \A col \in ColumnNames(fn) :
                       IF col \in RatioFields /\ Den(col, o.src[i]) = 0
                       THEN Undefined(o.df[i][col])
                       ELSE FieldCorrect(o, i, col)

C6_Witness ==
    /\ Returned("app")
    /\ loaded["app"].src = <<[TypicalRow EXCEPT !["workforce"] = IntCell(0)]>>
    /\ loaded["app"].df[1]["female_workforce_ratio"] = CInf(1)
    /\ loaded["app"].df[1]["connections_per_employee"] = CInf(1)
    /\ loaded["app"].df[1]["metering_coverage"] = Dec(6000, 2)
    /\ loaded["app"].df[1]["people_per_toilet"] = Dec(714, 0)

\* The exact value num / den is negative; it is above 100.
Negative(num, den) == num # 0 /\ den # 0 /\ (num < 0) # (den < 0)
Above100(num, den) == den # 0 /\ (num < 0) = (den < 0) /\ Abs(num) > 100 * Abs(den)

\* C7: derived values are never clamped: a negative numerator or a negative
\* denominator yields the signed ratio, a ratio above 100 stays above 100,
\* and w_supplied = 1000 with total_consumption = 1200 gives -20.00.
C7_NotClamped ==
    \A fn \in Fns :
       LET o == loaded[fn]
       IN  Returned(fn) =>
              \A i \in Rows(o) : \A col \in ColumnNames(fn) \cap RatioFields :
                 LET num == Num(col, o.src[i])
                     den == Den(col, o.src[i])
                     cell == o.df[i][col]
                 IN  Numeric(o.src[i], Uses(col)) =>
                       /\ Negative(num, den) =>
                             FieldCorrect(o, i, col) /\ cell.v <= 0
                       /\ Above100(num, den) =>
                             FieldCorrect(o, i, col) /\ cell.v >= 100 * Pow10(cell.d)
                       /\ (col = "nrw_percentage"
                           /\ o.src[i]["w_supplied"] = IntCell(1000)
                           /\ o.src[i]["total_consumption"] = IntCell(1200))
                          => cell = Dec(-2000, 2)

C7_Witness ==
    /\ Returned("app")
    /\ loaded["app"].src[1]["w_supplied"] = IntCell(1000)
    /\ loaded["app"].src[1]["total_consumption"] = IntCell(1200)
    /\ loaded["app"].src[1]["tests_chlorine"] = IntCell(23)
    /\ loaded["app"].df[1]["nrw_percentage"] = Dec(-2000, 2)
    /\ loaded["app"].df[1]["chlorine_execution_rate"] = Dec(36957, 2)

\* The decimals each derived ratio is published with.
PublishedDigits(col) ==
    IF col = "sewer_connection_density" THEN 3
    ELSE IF col = "people_per_toilet" THEN 0
    ELSE 2

\* C8: every derived percentage or ratio is rounded to 2 decimal digits,
\* except sewer_connection_density (3 digits) and people_per_toilet (the
\* nearest integer), in each of the five load_data functions and for every
\* field the function computes.
C8_RoundingDigits ==
    \A fn \in Fns :
       LET o == loaded[fn]
       IN  Returned(fn) =>
              \A i \in Rows(o) : \A col \in ColumnNames(fn) \cap RatioFields :
                 LET cell == o.df[i][col]
                     digits == PublishedDigits(col)
                 IN  /\ Finite(cell) =>
                          /\ cell.k = "num"
                          /\ cell.d <= digits \/ cell.v % Pow10(cell.d - digits) = 0
                     /\ (Numeric(o.src[i], Uses(col)) /\ Den(col, o.src[i]) # 0)
                        => Nearest(cell, Num(col, o.src[i]), Den(col, o.src[i]), digits)

C8_Witness ==
    /\ \A fn \in {"app", "lesotho", "malawi"} :
          Returned(fn) /\ loaded[fn].src = <<TypicalRow>>
    /\ loaded["app"].df[1]["sewer_connection_density"] = Dec(125, 3)
    /\ loaded["lesotho"].df[1]["sewer_connection_density"] = Dec(125, 3)
    /\ loaded["malawi"].df[1]["people_per_toilet"] = Dec(714, 0)
    /\ loaded["app"].df[1]["water_per_connection"] = Dec(167, 2)
    /\ loaded["lesotho"].df[1]["chlorine_pass_rate"] = Dec(9412, 2)

\* C9: population_estimate is households * 5, and people_per_toilet is the
\* unrounded population estimate over public_toilets rounded to 0 decimals;
\* a population estimate of 5000 with 7 public toilets gives 714.
C9_PeoplePerToilet ==
    \A fn \in {"app", "malawi"} :
       LET o == loaded[fn]
       IN  Returned(fn) =>
              \A i \in Rows(o) :
                 LET hh == o.src[i]["households"]
                     pt == o.src[i]["public_toilets"]
                 IN  /\ hh.k = "int" =>
                          o.df[i]["population_estimate"] = IntCell(hh.v * 5)
                     /\ (hh.k = "int" /\ pt.k = "int" /\ pt.v # 0) =>
                          Nearest(o.df[i]["people_per_toilet"], hh.v * 5, pt.v, 0)
                     /\ (hh = IntCell(1000) /\ pt = IntCell(7)) =>
                          o.df[i]["people_per_toilet"] = Dec(714, 0)

C9_Witness ==
    /\ Returned("app") /\ Returned("malawi")
    /\ loaded["malawi"].src[1]["households"] = IntCell(1000)
    /\ loaded["malawi"].src[1]["public_toilets"] = IntCell(7)
    /\ loaded["malawi"].df[1]["population_estimate"] = IntCell(5000)
    /\ loaded["malawi"].df[1]["people_per_toilet"] = Dec(714, 0)
    /\ loaded["app"].df[1]["people_per_toilet"] = Dec(714, 0)

\* C10: each derived ratio is computed in full precision and then rounded
\* exactly once, round-half-to-even: a value exactly halfway between two
\* representable results goes to the even one, in every derived field.
C10_HalfToEven ==
    \A fn \in Fns :
       LET o == loaded[fn]
       IN  Returned(fn) =>
              \A i \in Rows(o) : \A col \in ColumnNames(fn) \cap RatioFields :
                 (Numeric(o.src[i], Uses(col)) /\ Den(col, o.src[i]) # 0)
                 => HalfEven(o.df[i][col], Num(col, o.src[i]), Den(col, o.src[i]),
                             SpecTable[col].digits)

\* C12: the derived fields of a record depend only on that record: deriving
\* S followed by T gives the derivation of S followed by the derivation of
\* T, so a record that derives when it is processed alone has the same
\* derived record at its position in every batch that contains it.
C12_ConcatenationIndependent ==
    \A fn \in Fns :
       LET o == loaded[fn]
       IN  o.status # "none" =>
              \A i \in Rows(o) :
                 LET alone == load_data(fn, <<o.src[i]>>)
                 IN  alone.status = "ok" =>
                        /\ o.status = "ok"
                        /\ o.df[i] = alone.df[1]

\* C13: load_data derives at most once per snapshot of the raw dataset and
\* derives again once the dataset has changed, so a caller never receives
\* records derived from an older snapshot: the table the latest call
\* returned was derived from the rows the file held at that call.
C13_NeverStale ==
    \A fn \in Fns :
       loaded[fn].status = "ok" => loaded[fn].src = called[fn]

C15_DerivationOnlyAdds ==
    /\ \A fn \in Fns :
          Returned(fn) =>
             \A i \in Rows(loaded[fn]) :
                /\ RawFields \subseteq DOMAIN loaded[fn].df[i]
                /\ \A f \in RawFields : loaded[fn].df[i][f] = loaded[fn].src[i][f]
    /\ (view.page = "lesotho" /\ view.status = "ok") =>
          \A k \in 1..Len(view.filtered.rows) :
             LET given == loaded["lesotho"].df[view.filtered.idx[k]]
                 shown == view.filtered.rows[k]
             IN  /\ DOMAIN shown = DOMAIN given \cup {"area_type"}
                 /\ "area_type" \notin DOMAIN given
                 /\ \A f \in DOMAIN given : shown[f] = given[f]

C15_Witness ==
    /\ view.page = "lesotho"
    /\ view.status = "ok"
    /\ Len(view.filtered.rows) = 2
    /\ view.filtered.rows[1]["zone"] = Text("Urban 1")
    /\ view.filtered.rows[1]["area_type"] = Text("Urban")
    /\ view.filtered.rows[2]["zone"] = Text("Rural Hinterland")
    /\ view.filtered.rows[2]["area_type"] = Text("Rural")
    /\ view.filtered.rows[1]["nrw_percentage"] = loaded["lesotho"].df[2]["nrw_percentage"]

\* The raw fields the columns of load_data of page fn read.
Required(fn) == UNION {Uses(col) : col \in ColumnNames(fn)}

\* C16: a record in which a required raw field holds text is reported as a
\* failed record: the call still returns, no derived value is produced from
\* that record, and every sibling record has the derived fields it has when
\* it is loaded without the bad record.
C16_NonNumericReported ==
    \A fn \in Fns :
       LET o == loaded[fn]
           bad == {i \in Rows(o) : \E f \in Required(fn) : o.src[i][f].k = "str"}
       IN  (/\ o.status # "none"
            /\ bad # {}
            /\ \A i \in Rows(o) : o.src[i]["date"].t \in DOMAIN DateTable)
           => /\ Returned(fn)
              /\ \A i \in bad : \A col \in ColumnNames(fn) :
                    col \in DOMAIN o.df[i] => ~Finite(o.df[i][col])
              /\ \A i \in Rows(o) \ bad :
                    o.df[i] = load_data(fn, <<o.src[i]>>).df[1]

\* C17: every derived column a page reads is one its own load_data
\* assigned, under a field name of the table of derived fields and with
\* that field's formula; no page reads a derived field its load_data did
\* not compute.
C17_ReadsAreProduced ==
    \A fn \in Fns :
       Returned(fn) =>
          \A col \in PageReads[fn] :
             /\ col \in DerivedFields
             /\ col \in ColumnNames(fn)
             /\ \A i \in Rows(loaded[fn]) :
                   /\ col \in DOMAIN loaded[fn].df[i]
                   /\ (/\ Numeric(loaded[fn].src[i], Uses(col))
                       /\ col \in RatioFields => Den(col, loaded[fn].src[i]) # 0)
                      => FieldCorrect(loaded[fn], i, col)

C17_Witness ==
    /\ Returned("uganda")
    /\ Returned("malawi")
    /\ loaded["uganda"].src = <<TypicalRow>>
    /\ Finite(loaded["uganda"].df[1]["nrw_percentage"])
    /\ loaded["malawi"].df[1]["people_per_toilet"] = Dec(714, 0)
    /\ loaded["malawi"].df[1]["population_estimate"] = IntCell(5000)

\* C18: with the derived records the caller receives a count of the
\* records with at least one undefined or failed derived field, equal to the
\* number of input records with a zero denominator, a missing raw field or
\* a non-numeric raw field.
C18_FailedCountReturned ==
    \A fn \in Fns :
       LET o == loaded[fn]
           failing == {i \in Rows(o) : \E col \in ColumnNames(fn) :
                          \/ ~Numeric(o.src[i], Uses(col))
                          \/ col \in RatioFields /\ Den(col, o.src[i]) = 0}
       IN  Returned(fn) =>
              /\ "failed_count" \in DOMAIN o
              /\ o.failed_count = Cardinality(failing)

\* C19 (as stated): get_kpi_status returns exactly one of success, warning
\* and critical; with higher_is_better, success iff value >= benchmark and
\* warning iff 0.8 x benchmark <= value < benchmark; otherwise success iff
\* value <= benchmark and warning iff benchmark < value <= 1.2 x benchmark;
\* critical in every other case and for NaN.  The value is the decimal
\* passed in, the thresholds are the products in exact arithmetic.
C19_RealThresholds ==
    view.page = "get_kpi_status" =>
       LET v == view.sel.value
           b == view.sel.benchmark
           s == view.card.status
       IN  /\ s \in {"success", "warning", "critical"}
           /\ v.k = "nan" => s = "critical"
           /\ (v.k = "num" /\ view.sel.higher_is_better) =>
                 /\ s = "success" <=> v.v >= 100 * b
                 /\ s = "warning" <=> (80 * b <= v.v /\ v.v < 100 * b)
                 /\ s = "critical" <=> v.v < 80 * b
           /\ (v.k = "num" /\ ~view.sel.higher_is_better) =>
                 /\ s = "success" <=> v.v <= 100 * b
                 /\ s = "warning" <=> (100 * b < v.v /\ v.v <= 120 * b)
                 /\ s = "critical" <=> v.v > 120 * b

\* The benchmarks main() passes to get_kpi_status.
ProgramBenchmarks == {25, 80, 95}

\* C19 (amended): the same partition with the warning thresholds being the
\* float64 products benchmark * 0.8 and benchmark * 1.2; for the benchmarks
\* the program passes (25, 80, 95) these are exactly 0.8 and 1.2 times the
\* benchmark, and the partition is the one of the decimal values.
C19_FloatThresholds ==
    view.page = "get_kpi_status" =>
       LET v == view.sel.value
           x == ToFloat(v)
           b == view.sel.benchmark
           s == view.card.status
           icon == view.card.icon
       IN  /\ s \in {"success", "warning", "critical"}
           /\ icon = (CASE s = "success" -> "green" [] s = "warning" -> "yellow"
                        [] OTHER -> "red")
           /\ v.k = "nan" => s = "critical"
           /\ view.sel.higher_is_better =>
                 /\ s = "success" <=> FloatLe(FromInt(b), x)
                 /\ s = "warning" <=> /\ FloatLe(FloatMul(Point8, b), x)
                                      /\ FloatLess(x, FromInt(b))
           /\ ~view.sel.higher_is_better =>
                 /\ s = "success" <=> FloatLe(x, FromInt(b))
                 /\ s = "warning" <=> /\ FloatLess(FromInt(b), x)
                                      /\ FloatLe(x, FloatMul(OnePoint2, b))
           /\ b \in ProgramBenchmarks =>
                 /\ FloatEq(FloatMul(Point8, b), IntDiv(8 * b, 10))
                 /\ FloatEq(FloatMul(OnePoint2, b), IntDiv(12 * b, 10))
                 /\ (v.k = "num" /\ view.sel.higher_is_better) =>
                       /\ s = "success" <=> v.v >= 100 * b
                       /\ s = "warning" <=> (80 * b <= v.v /\ v.v < 100 * b)
                 /\ (v.k = "num" /\ ~view.sel.higher_is_better) =>
                       /\ s = "success" <=> v.v <= 100 * b
                       /\ s = "warning" <=> (100 * b < v.v /\ v.v <= 120 * b)

C19_Witness ==
    /\ view.page = "get_kpi_status"
    /\ view.sel.value = Dec(2000, 2)
    /\ view.sel.benchmark = 25
    /\ view.sel.higher_is_better
    /\ view.card = KpiStatus("yellow", "warning")

\* C20: on the overview, for every filter selection (also one that selects
\* no records), the text of the Sector-Wide NRW card says 'Above' exactly
\* when its icon is not the green one, and 'Below' exactly when it is green.
C20_TextMatchesIcon ==
    (view.page = "app" /\ view.status = "ok") =>
       /\ view.card.text = "Above" <=> view.card.icon # "green"
       /\ view.card.text = "Below" <=> view.card.icon = "green"

\* C21: on the overview, for every filter selection, no zone is counted
\* both among the zones meeting the water quality standard (Quality
\* Compliance card) and among the zones below 95% E. coli compliance (Water
\* Quality Concerns alert), and the compliant zones are never more than the
\* zones in total.
C21_CompliantAndPoorDisjoint ==
    (view.page = "app" /\ view.status = "ok") =>
       /\ view.card.compliant_zones \cap view.card.poor_quality_zones = {}
       /\ view.card.compliant_utilities <= view.card.total_utilities

\* The rows of the loaded table a selection of the overview asks for.
Asked(df, sel) ==
    {i \in 1..Len(df) :
        /\ df[i]["country"] \in sel.selected_countries
        /\ sel.year_range[1] <= df[i]["year"].v
        /\ df[i]["year"].v <= sel.year_range[2]}

\* The sum of an integer field over the rows S of a table.
RECURSIVE SumOver(_, _, _)
SumOver(df, S, name) ==
    IF S = {} THEN 0
    ELSE LET i == CHOOSE j \in S : TRUE
         IN  (IF df[i][name].k = "int" THEN df[i][name].v ELSE 0)
             + SumOver(df, S \ {i}, name)

\* C25: on the overview the filtered records are exactly the records whose
\* country is among the selected countries and whose year lies in the closed
\* range of the slider, in file order; an empty country selection yields no
\* records; and the aggregates shown are those of this set of records.
C25_OverviewFilter ==
    (view.page = "app" /\ view.status = "ok") =>
       LET df == loaded["app"].df
           fr == view.filtered
           asked == Asked(df, view.sel)
       IN  /\ Len(fr.idx) = Cardinality(asked)
           /\ \A k \in 1..Len(fr.idx) :
                 /\ fr.idx[k] \in asked
                 /\ fr.rows[k] = df[fr.idx[k]]
                 /\ \A j \in 1..Len(fr.idx) : j < k => fr.idx[j] < fr.idx[k]
           /\ view.sel.selected_countries = {} => fr.rows = <<>>
           /\ view.card.total_records = Cardinality(asked)
           /\ view.card.total_households = SumOver(df, asked, "households")
           /\ view.card.total_metered = SumOver(df, asked, "metered")
           /\ view.card.total_population = 5 * SumOver(df, asked, "households")
           /\ view.card.total_utilities = Cardinality({df[i]["zone"] : i \in asked})
           /\ view.card.compliant_zones \subseteq {df[i]["zone"] : i \in asked}
           /\ view.card.poor_quality_zones \subseteq {df[i]["zone"] : i \in asked}
           /\ view.card.high_nrw_count =
                 Cardinality({i \in asked : HighNrw(df[i])})
           /\ asked = {} => view.card.avg_nrw = NaN

C25_Witness ==
    /\ view.page = "app"
    /\ view.status = "ok"
    /\ view.sel.selected_countries = {Text("lesotho")}
    /\ view.sel.year_range = <<2023, 2023>>
    /\ Len(loaded["app"].df) = 3
    /\ view.filtered.idx = <<2>>
    /\ view.card.total_records = 1

\* C26: the guarded ratios of the overview never divide by zero: the average
\* water coverage is 0 when the filtered households sum to 0, the compliance
\* rate is 0 when there are no zones, the high-NRW share is 0 when there are
\* no records; the compliance rate and the high-NRW share lie between 0 and
\* 100.
C26_GuardedRatios ==
    (view.page = "app" /\ view.status = "ok") =>
       LET c == view.card
       IN  /\ \A x \in {c.avg_water_coverage, c.compliance_rate, c.high_nrw_pct} :
                 x.k \in {"zero", "fin"}
           /\ c.total_households = 0 => c.avg_water_coverage = FZero
           /\ c.total_utilities = 0 => c.compliance_rate = FZero
           /\ c.total_records = 0 => c.high_nrw_pct = FZero
           /\ \A x \in {c.compliance_rate, c.high_nrw_pct} :
                 FloatLe(FZero, x) /\ FloatLe(x, FromInt(100))

C26_Witness ==
    /\ view.page = "app"
    /\ view.status = "ok"
    /\ view.card.total_records = 1
    /\ view.card.total_households = 0
    /\ view.card.avg_water_coverage = FZero
    /\ view.card.compliance_rate = FZero

\* C23: on the Lesotho page every zone is classified as exactly one of
\* Urban (its name contains 'Urban') and Rural, and for every sidebar
\* selection that leaves at least one record the Urban-vs-Rural
\* infrastructure comparison gets a value for the Urban and for the Rural
\* group, without an out-of-range access.
C23_BothGroupsHaveValues ==
    (/\ view.page = "lesotho"
     /\ view.sel # NoSel
     /\ Len(view.filtered.rows) >= 1)
    => /\ \A k \in 1..Len(view.filtered.rows) :
             LET row == view.filtered.rows[k]
             IN  /\ row["area_type"] \in {Text("Urban"), Text("Rural")}
                 /\ row["area_type"] = Text("Urban") <=> ZoneHasUrban[row["zone"].t]
       /\ view.status = "ok"
       /\ DOMAIN view.card = {"urban_households", "rural_households"}

(***************************************************************************)
(* C22: the resolution-efficiency heatmap of the Uganda page               *)
(***************************************************************************)

\* C22: every displayed cell of the heatmap pairs a month label with the
\* mean complaint resolution efficiency of that same zone in that same
\* month, whatever the number of months in the filtered data: column j of
\* z is drawn over label j of x.
C22_CellsMatchLabels ==
    (view.page = "uganda" /\ view.status = "ok") =>
        \A zone \in DOMAIN view.card.z :
            \A j \in 1..Len(view.card.x) :
                view.card.z[zone][j] = ZoneMonthMean(view.filtered, zone, view.card.x[j])

(***************************************************************************)
(* C24: the filters of the country pages                                   *)
(***************************************************************************)

CountryPages == {"cameroon", "lesotho", "malawi", "uganda"}
CountryName == [page \in CountryPages |-> IF page = "uganda" THEN "Uganda" ELSE page]

\* A zone or year selection lets a value through: it is empty, or it
\* contains 'All', or it contains the value.
Lets(pick, value) == pick.all \/ pick.items = {} \/ value \in pick.items

\* A record is of the country of the page and satisfies every active filter
\* of the sidebar.
Satisfies(row, page, sel) ==
    /\ row["country"] = Text(CountryName[page])
    /\ Len(sel.date_range) = 2 =>
          /\ row["date_parsed"].v >= sel.date_range[1]
          /\ row["date_parsed"].v <= sel.date_range[2]
    /\ Lets(sel.selected_zones, row["zone"])
    /\ Lets(sel.selected_years, row["year"])
    /\ page = "cameroon" =>
          (sel.selected_city = Text("All") \/ row["city"] = sel.selected_city)

\* C24: on each country page filtered_df holds exactly the records of the
\* page's country that satisfy all active filters at once (date within the
\* range when both ends are given, zone in the selection, year in the
\* selection, on the Cameroon page the chosen city), in their original
\* order and with their values; a zone or year selection that is empty or
\* contains 'All' restricts nothing, even with a value selected alongside.
C24_FilteredExactly ==
    (view.page \in CountryPages /\ view.sel # NoSel) =>
        LET df == loaded[view.page].df
            idx == view.filtered.idx
        IN  /\ {idx[j] : j \in DOMAIN idx}
                  = {i \in 1..Len(df) : Satisfies(df[i], view.page, view.sel)}
            /\ \A j, k \in DOMAIN idx : j < k => idx[j] < idx[k]
            /\ \A j \in DOMAIN idx :
                   \A f \in DOMAIN df[idx[j]] :
                       view.filtered.rows[j][f] = df[idx[j]][f]

\* The Cameroon page with a city chosen and 'All' selected alongside a zone
\* the city has no record of: the record of the city is kept.
C24_Witness ==
    /\ view.page = "cameroon"
    /\ view.status = "ok"
    /\ view.sel.selected_city # Text("All")
    /\ view.sel.selected_zones.all
    /\ view.sel.selected_zones.items # {}
    /\ Len(view.filtered.rows) = 1
    /\ view.filtered.rows[1]["zone"] \notin view.sel.selected_zones.items
    /\ Len(CountryFrame(loaded["cameroon"].df, "cameroon").rows) = 2

(***************************************************************************)
(* C27: the selections that no computation reads                           *)
(***************************************************************************)

====
